---- MODULE Spec2Model ----
(***************************************************************************)
(* Model of the two Streamlit scripts of Web3 Chain Radar.                 *)
(*                                                                         *)
(*   streamlit_app.py  Fear & Greed backtest: load_fng, load_price,        *)
(*                     merge_data, backtest, cumulative_return,            *)
(*                     compare_strategies            (specification Spec)  *)
(*   app.py            chain comparison dashboard: safe_fetch_coingecko,   *)
(*                     the chain selection branch, the insights loop       *)
(*                                                   (specification SpecApp)*)
(*   app.py            fetch_coingecko_market_chart / safe_fetch_coingecko *)
(*                     on one raw response         (specification SpecFetch)*)
(*                                                                         *)
(* A DataFrame is a sequence of rows (records); the pandas index plays no  *)
(* role in the code modelled.  A float64 is a record of kind "num" (an     *)
(* exact fraction n/d in lowest terms), "nan" or "inf": rounding is        *)
(* abstracted, NaN and the IEEE results of a division by zero are kept.    *)
(* Time is counted in ticks, TicksPerDay ticks to the calendar day.        *)
(***************************************************************************)
EXTENDS Integers, Sequences, FiniteSets, TLC

VARIABLES
    \* ---- streamlit_app.py ----
    pc,             \* position in the script
    fng,            \* load_fng(): rows [timestamp, fear]
    btc,            \* load_price("bitcoin"): rows [timestamp, price, asset]
    btc_m,          \* merge_data(btc)
    lookahead,      \* slider value
    btc_fear,       \* backtest(btc_m, lookahead)[0]
    btc_greed,      \* backtest(btc_m, lookahead)[1]
    btc_fear_cum,   \* cumulative_return(btc_fear)
    compare_df,     \* compare_strategies(btc_fear, btc_greed, "BTC")
    \* ---- app.py ----
    app_pc,         \* position in the script
    selected,       \* sidebar multiselect
    days,           \* sidebar slider
    df_map,         \* chain name -> daily table, or Unbound
    insights,       \* list of insight lines
    \* ---- one fetch of app.py ----
    fetch_pc,       \* "request", "fetched", "fallback"
    response,       \* the HTTP response of the market_chart request
    df,             \* the table safe_fetch_coingecko returns
    \* ---- both ----
    error           \* the uncaught exception that ended the script, or "none"

vars == <<pc, fng, btc, btc_m, lookahead, btc_fear, btc_greed, btc_fear_cum,
          compare_df, app_pc, selected, days, df_map, insights,
          fetch_pc, response, df, error>>

bt_vars == <<pc, fng, btc, btc_m, lookahead, btc_fear, btc_greed,
             btc_fear_cum, compare_df>>
app_vars == <<app_pc, selected, days, df_map, insights>>
fetch_vars == <<fetch_pc, response, df>>

----------------------------------------------------------------------------
(* Bounds of the model *)

MaxLen == 4         \* price observations in one response; ticks are 0..MaxLen
MaxPrice == 2       \* prices are 1..MaxPrice
MaxLookahead == 3   \* the slider offers 1..MaxLookahead
MaxRaw == 3         \* observations in one "prices" array of app.py
MaxSelected == 2    \* chains picked in the sidebar
MaxRawApp == 2      \* the same, for the responses of a whole run of app.py
TicksPerDay == 2    \* resolution of a timestamp

Ticks == 0..MaxLen
DayStarts == {t \in Ticks : t % TicksPerDay = 0}

----------------------------------------------------------------------------
(* float64 *)

Abs(x) == IF x < 0 THEN -x ELSE x
Sgn(x) == IF x < 0 THEN -1 ELSE IF x > 0 THEN 1 ELSE 0

RECURSIVE GCD(_, _)
GCD(a, b) == IF b = 0 THEN a ELSE GCD(b, a % b)

NaN == [kind |-> "nan", n |-> 0, d |-> 0]
Inf(s) == [kind |-> "inf", n |-> s, d |-> 0]
\* n/d for d # 0, in lowest terms with d > 0
Norm(n, d) ==
    LET g == GCD(Abs(n), Abs(d))
    IN  [kind |-> "num", n |-> Sgn(d) * (n \div g), d |-> Abs(d) \div g]
Num(i) == [kind |-> "num", n |-> i, d |-> 1]

IsNaN(x) == x.kind = "nan"
IsZero(x) == x.kind = "num" /\ x.n = 0
FSgn(x) == IF IsZero(x) THEN 1 ELSE Sgn(x.n)

FNeg(a) == IF a.kind = "nan" THEN NaN ELSE [a EXCEPT !.n = -a.n]
FAdd(a, b) ==
    IF IsNaN(a) \/ IsNaN(b) THEN NaN
    ELSE IF a.kind = "inf"
         THEN IF b.kind = "inf" /\ b.n # a.n THEN NaN ELSE a
    ELSE IF b.kind = "inf" THEN b
    ELSE Norm(a.n * b.d + b.n * a.d, a.d * b.d)
FSub(a, b) == FAdd(a, FNeg(b))
FMul(a, b) ==
    IF IsNaN(a) \/ IsNaN(b) THEN NaN
    ELSE IF a.kind = "inf" \/ b.kind = "inf"
         THEN IF IsZero(a) \/ IsZero(b) THEN NaN ELSE Inf(Sgn(a.n) * Sgn(b.n))
    ELSE LET g == GCD(Abs(a.n), b.d)
             h == GCD(Abs(b.n), a.d)
         IN  Norm((a.n \div g) * (b.n \div h), (a.d \div h) * (b.d \div g))
FDiv(a, b) ==
    IF IsNaN(a) \/ IsNaN(b) THEN NaN
    ELSE IF a.kind = "inf"
         THEN IF b.kind = "inf" THEN NaN ELSE Inf(Sgn(a.n) * FSgn(b))
    ELSE IF b.kind = "inf" THEN Num(0)
    ELSE IF IsZero(b)
         THEN IF IsZero(a) THEN NaN ELSE Inf(Sgn(a.n))
    ELSE Norm(a.n * b.d, a.d * b.n)
\* comparisons with NaN are False
FLe(a, b) ==
    /\ ~IsNaN(a) /\ ~IsNaN(b)
    /\ IF a.kind = "inf" THEN a.n < 0 \/ a = b
       ELSE IF b.kind = "inf" THEN b.n > 0
       ELSE a.n * b.d <= b.n * a.d
FGe(a, b) == FLe(b, a)

\* a name that was never assigned, and the state before any request
Unbound == [bound |-> FALSE, items |-> <<>>]
NoResponse == [status |-> "idle", prices |-> <<>>, market_caps |-> <<>>,
               total_volumes |-> <<>>]

----------------------------------------------------------------------------
(* DataFrame helpers *)

\* sort_values("timestamp"): insertion into an ascending sequence
RECURSIVE InsertByTimestamp(_, _)
InsertByTimestamp(row, s) ==
    IF s = <<>> THEN <<row>>
    ELSE IF row.timestamp < Head(s).timestamp THEN <<row>> \o s
    ELSE <<Head(s)>> \o InsertByTimestamp(row, Tail(s))

RECURSIVE SortByTimestamp(_)
SortByTimestamp(s) ==
    IF s = <<>> THEN <<>>
    ELSE InsertByTimestamp(s[Len(s)], SortByTimestamp(SubSeq(s, 1, Len(s) - 1)))

----------------------------------------------------------------------------
(* streamlit_app.py: the data sources *)

FearThreshold == 20
GreedThreshold == 80
FearValues == {FearThreshold, 50, GreedThreshold}
Prices == 1..MaxPrice

\* all sequences of at most k observations [timestamp, value] with value in
\* vals and timestamps in ts, from lo on, each at least gap after the one before
RECURSIVE Series(_, _, _, _, _)
Series(ts, vals, lo, k, gap) ==
    {<<>>} \cup
    IF k = 0 THEN {}
    ELSE UNION {
           { <<[timestamp |-> t, value |-> v]>> \o rest :
                 v \in vals, rest \in Series(ts, vals, t + gap, k - 1, gap) } :
           t \in {x \in ts : x >= lo} }

Reverse(s) == [i \in 1..Len(s) |-> s[Len(s) + 1 - i]]

\* api.alternative.me/fng: one observation per day, newest first
FngResponses ==
    { [status |-> "network_error", data |-> <<>>],
      [status |-> "non200", data |-> <<>>] } \cup
    { [status |-> "ok", data |-> Reverse(s)] :
          s \in Series(DayStarts, FearValues, 0, Cardinality(DayStarts), 1) }

\* api.coingecko.com market_chart, the "prices" array: oldest first
PriceResponses ==
    { [status |-> "network_error", data |-> <<>>],
      [status |-> "non200", data |-> <<>>] } \cup
    { [status |-> "ok", data |-> s] :
          s \in Series(Ticks, Prices, 0, MaxLen, 1) }

\* requests.get(url).json() followed by the first subscript of the body:
\* the exception it raises, or "none"
LoadError(r, needs_rows) ==
    IF r.status = "network_error" THEN "ConnectionError"
    ELSE IF r.status = "non200" THEN "KeyError"
    ELSE IF needs_rows /\ r.data = <<>> THEN "KeyError"
    ELSE "none"

load_fng(r) ==
    [i \in 1..Len(r.data) |->
        [timestamp |-> r.data[i].timestamp, fear |-> Num(r.data[i].value)]]

load_price(r, coin_id) ==
    [i \in 1..Len(r.data) |->
        [timestamp |-> r.data[i].timestamp, price |-> Num(r.data[i].value),
         asset |-> coin_id]]

----------------------------------------------------------------------------
(* streamlit_app.py: merge_data *)

\* pd.merge_asof(left, right, on="timestamp", direction="nearest") on sorted
\* frames: the last right row at or before t, the first right row at or after
\* t, the backward one when it is no farther than the forward one; a left row
\* with no right row at all keeps fear = NaN
BackwardIndex(right, t) ==
    LET js == {j \in 1..Len(right) : right[j].timestamp <= t}
    IN  IF js = {} THEN 0 ELSE CHOOSE j \in js : \A k \in js : k <= j
ForwardIndex(right, t) ==
    LET js == {j \in 1..Len(right) : right[j].timestamp >= t}
    IN  IF js = {} THEN 0 ELSE CHOOSE j \in js : \A k \in js : j <= k
\* the forward row preferred on a tie
NearestIndex_LaterOnTie(right, t) ==
    LET b == BackwardIndex(right, t)
        f == ForwardIndex(right, t)
    IN  IF b # 0 /\ f # 0
        THEN IF t - right[b].timestamp < right[f].timestamp - t THEN b ELSE f
        ELSE IF b # 0 THEN b ELSE f

NearestIndex(right, t) ==
    LET b == BackwardIndex(right, t)
        f == ForwardIndex(right, t)
    IN  IF b # 0 /\ f # 0
        THEN IF t - right[b].timestamp <= right[f].timestamp - t THEN b ELSE f
        ELSE IF b # 0 THEN b ELSE f

\* an exact-match inner join on timestamp
MergeAsofNearest_Exact(left, right) ==
    LET hit(row) == \E j \in 1..Len(right) : right[j].timestamp = row.timestamp
        kept == SelectSeq(left, hit)
    IN  [i \in 1..Len(kept) |->
            [timestamp |-> kept[i].timestamp, price |-> kept[i].price,
             asset |-> kept[i].asset,
             fear |-> right[BackwardIndex(right, kept[i].timestamp)].fear]]

MergeAsofNearest(left, right) ==
    [i \in 1..Len(left) |->
        LET j == NearestIndex(right, left[i].timestamp)
        IN  [timestamp |-> left[i].timestamp, price |-> left[i].price,
             asset |-> left[i].asset,
             fear |-> IF j = 0 THEN NaN ELSE right[j].fear]]

merge_data(price_df, fng_df) ==
    MergeAsofNearest(SortByTimestamp(price_df), SortByTimestamp(fng_df))

----------------------------------------------------------------------------
(* streamlit_app.py: backtest, cumulative_return, compare_strategies *)

\* a shift that loses the last row it could still reach
ShiftedPrice_OffByOne(frame, i, h) ==
    IF i + h < Len(frame) THEN frame[i + h].price ELSE NaN

\* df["price"].shift(-lookahead)
ShiftedPrice(frame, i, h) ==
    IF i + h <= Len(frame) THEN frame[i + h].price ELSE NaN

Annotate(frame, h) ==
    [i \in 1..Len(frame) |->
        LET future == ShiftedPrice(frame, i, h)
        IN  [timestamp |-> frame[i].timestamp, price |-> frame[i].price,
             asset |-> frame[i].asset, fear |-> frame[i].fear,
             future |-> future,
             return |-> FDiv(FSub(future, frame[i].price), frame[i].price)]]

HasNa(row) ==
    IsNaN(row.price) \/ IsNaN(row.fear) \/ IsNaN(row.future) \/ IsNaN(row.return)
DropNa(frame) == SelectSeq(frame, LAMBDA row : ~HasNa(row))

IsFear(row) == FLe(row.fear, Num(FearThreshold))
IsGreed(row) == FGe(row.fear, Num(GreedThreshold))

backtest(frame, h) ==
    LET a == Annotate(frame, h)
    IN  [fear_buy |-> DropNa(SelectSeq(a, IsFear)),
         greed_sell |-> DropNa(SelectSeq(a, IsGreed))]

\* cumsum in place of cumprod
RECURSIVE CumProd_Sum(_, _, _)
CumProd_Sum(frame, i, acc) ==
    IF i > Len(frame) THEN <<>>
    ELSE LET c == FAdd(acc, frame[i].return)
         IN  <<c>> \o CumProd_Sum(frame, i + 1, c)

\* (1 + df["return"]).cumprod(): acc is the running product before row i
RECURSIVE CumProd(_, _, _)
CumProd(frame, i, acc) ==
    IF i > Len(frame) THEN <<>>
    ELSE LET c == FMul(acc, FAdd(Num(1), frame[i].return))
         IN  <<c>> \o CumProd(frame, i + 1, c)

cumulative_return(frame) ==
    LET c == CumProd(frame, 1, Num(1))
    IN  [i \in 1..Len(frame) |->
            [timestamp |-> frame[i].timestamp, return |-> frame[i].return,
             cumulative |-> c[i]]]

\* (1 + df["return"]).prod(): multiply.reduce from the left
RECURSIVE Prod(_, _, _)
Prod(frame, i, acc) ==
    IF i > Len(frame) THEN acc
    ELSE Prod(frame, i + 1, FMul(acc, FAdd(Num(1), frame[i].return)))

\* the compounded growth factor taken for the return
TotalReturn_NoSubtract(frame) ==
    IF Len(frame) > 0 THEN Prod(frame, 1, Num(1)) ELSE Num(0)

TotalReturn(frame) ==
    IF Len(frame) > 0 THEN FSub(Prod(frame, 1, Num(1)), Num(1)) ELSE Num(0)

compare_strategies(fear_df, greed_df, asset) ==
    << [strategy |-> "Fear Buy",
        return |-> FMul(TotalReturn(fear_df), Num(100)), asset |-> asset],
       [strategy |-> "Greed Sell",
        return |-> FMul(TotalReturn(greed_df), Num(100)), asset |-> asset] >>

----------------------------------------------------------------------------
(* streamlit_app.py: the script *)

BtIdle ==
    /\ pc = "idle" /\ fng = <<>> /\ btc = <<>> /\ btc_m = <<>>
    /\ lookahead = 0 /\ btc_fear = <<>> /\ btc_greed = <<>>
    /\ btc_fear_cum = <<>> /\ compare_df = <<>>
AppIdle ==
    /\ app_pc = "idle" /\ selected = <<>> /\ days = 0
    /\ df_map = Unbound /\ insights = <<>>
FetchIdle ==
    /\ fetch_pc = "idle" /\ response = NoResponse /\ df = <<>>

Init ==
    /\ pc = "load_fng" /\ fng = <<>> /\ btc = <<>> /\ btc_m = <<>>
    /\ lookahead = 0 /\ btc_fear = <<>> /\ btc_greed = <<>>
    /\ btc_fear_cum = <<>> /\ compare_df = <<>>
    /\ error = "none"
    /\ AppIdle /\ FetchIdle

\* line 35: fng = load_fng()
LoadFng ==
    /\ pc = "load_fng"
    /\ \E r \in FngResponses :
         IF LoadError(r, TRUE) # "none"
         THEN /\ error' = LoadError(r, TRUE)
              /\ pc' = "error"
              /\ fng' = fng
         ELSE /\ fng' = load_fng(r)
              /\ pc' = "load_price"
              /\ error' = error
    /\ UNCHANGED <<btc, btc_m, lookahead, btc_fear, btc_greed, btc_fear_cum,
                   compare_df, app_vars, fetch_vars>>

\* line 36: btc = load_price("bitcoin")
LoadPrice ==
    /\ pc = "load_price"
    /\ \E r \in PriceResponses :
         IF LoadError(r, FALSE) # "none"
         THEN /\ error' = LoadError(r, FALSE)
              /\ pc' = "error"
              /\ btc' = btc
         ELSE /\ btc' = load_price(r, "BITCOIN")
              /\ pc' = "merge"
              /\ error' = error
    /\ UNCHANGED <<fng, btc_m, lookahead, btc_fear, btc_greed, btc_fear_cum,
                   compare_df, app_vars, fetch_vars>>

\* line 52: btc_m = merge_data(btc)
MergeData ==
    /\ pc = "merge"
    /\ btc_m' = merge_data(btc, fng)
    /\ pc' = "backtest"
    /\ UNCHANGED <<fng, btc, lookahead, btc_fear, btc_greed, btc_fear_cum,
                   compare_df, app_vars, fetch_vars, error>>

\* lines 90-92: the slider, then btc_fear, btc_greed = backtest(btc_m, lookahead)
Backtest ==
    /\ pc = "backtest"
    /\ \E h \in 1..MaxLookahead :
         /\ lookahead' = h
         /\ btc_fear' = backtest(btc_m, h).fear_buy
         /\ btc_greed' = backtest(btc_m, h).greed_sell
    /\ pc' = "cumulative"
    /\ UNCHANGED <<fng, btc, btc_m, btc_fear_cum, compare_df,
                   app_vars, fetch_vars, error>>

\* line 104: btc_fear_cum = cumulative_return(btc_fear)
CumulativeReturn ==
    /\ pc = "cumulative"
    /\ btc_fear_cum' = cumulative_return(btc_fear)
    /\ pc' = "compare"
    /\ UNCHANGED <<fng, btc, btc_m, lookahead, btc_fear, btc_greed, compare_df,
                   app_vars, fetch_vars, error>>

\* line 132: compare_strategies(btc_fear, btc_greed, "BTC")
CompareStrategies ==
    /\ pc = "compare"
    /\ compare_df' = compare_strategies(btc_fear, btc_greed, "BTC")
    /\ pc' = "done"
    /\ UNCHANGED <<fng, btc, btc_m, lookahead, btc_fear, btc_greed,
                   btc_fear_cum, app_vars, fetch_vars, error>>

\* a widget change reruns the script from the top; st.cache_data answers the
\* two loaders from its cache, everything else is recomputed
Rerun ==
    /\ pc = "done"
    /\ pc' = "merge"
    /\ btc_m' = <<>> /\ lookahead' = 0 /\ btc_fear' = <<>> /\ btc_greed' = <<>>
    /\ btc_fear_cum' = <<>> /\ compare_df' = <<>>
    /\ UNCHANGED <<fng, btc, app_vars, fetch_vars, error>>

Next ==
    \/ LoadFng
    \/ LoadPrice
    \/ MergeData
    \/ Backtest
    \/ CumulativeReturn
    \/ CompareStrategies
    \/ Rerun

Spec == Init /\ [][Next]_vars

----------------------------------------------------------------------------
(* Properties of streamlit_app.py, checked under Spec *)

Merged == pc \in {"backtest", "cumulative", "compare", "done"}
Backtested == pc \in {"cumulative", "compare", "done"}
Rows(frame) == {frame[i] : i \in 1..Len(frame)}
Increasing(frame) ==
    \A i \in 1..Len(frame) - 1 : frame[i].timestamp < frame[i + 1].timestamp

\* the rows of btc_m that satisfy the sentiment predicate and have a row
\* lookahead places further on
CohortIndexes(IsIn(_)) ==
    {i \in 1..Len(btc_m) : IsIn(btc_m[i].fear.n) /\ i + lookahead <= Len(btc_m)}
IsCohort(cohort, IsIn(_)) ==
    /\ Len(cohort) = Cardinality(CohortIndexes(IsIn))
    /\ Increasing(cohort)
    /\ \A i \in CohortIndexes(IsIn) :
         \E r \in Rows(cohort) :
            /\ r.timestamp = btc_m[i].timestamp
            /\ r.price = btc_m[i].price
            /\ r.fear = btc_m[i].fear
            /\ r.future = btc_m[i + lookahead].price
            /\ r.return.kind = "num"
            /\ r.return.n * btc_m[i].price.n =
                  (btc_m[i + lookahead].price.n - btc_m[i].price.n) * r.return.d

\* C1: backtest(df, h) gives the record at index i a defined forward return
\* iff i + h < n; the fear cohort is exactly the records with fear <= 20 and
\* a defined forward return, the greed cohort exactly those with fear >= 80
\* and a defined forward return, each in chronological order; a record
\* without a defined forward return is in no cohort.
C1_BacktestCohorts ==
    Backtested =>
        /\ IsCohort(btc_fear, LAMBDA f : f <= 20)
        /\ IsCohort(btc_greed, LAMBDA f : f >= 80)

C1_Witness ==
    /\ pc = "cumulative"
    /\ btc_fear # <<>>
    /\ btc_greed # <<>>
    /\ \E i \in 1..Len(btc_m) :
          i + lookahead > Len(btc_m) /\ btc_m[i].fear.n <= 20

\* the product of (1 + forward_return) over a cohort, from the last row back
RECURSIVE GrowthProduct(_)
GrowthProduct(cohort) ==
    IF cohort = <<>> THEN Num(1)
    ELSE FMul(GrowthProduct(SubSeq(cohort, 1, Len(cohort) - 1)),
              FAdd(Num(1), cohort[Len(cohort)].return))
ExpectedTotal(cohort) ==
    IF cohort = <<>> THEN Num(0) ELSE FSub(GrowthProduct(cohort), Num(1))

\* C2: the total return computed by compare_strategies (before its x100
\* scaling) equals the product of (1 + forward_return) over all cohort members
\* minus 1, and is exactly 0 when the cohort is empty.
C2_TotalReturn ==
    pc = "done" =>
        /\ FDiv(compare_df[1].return, Num(100)) = ExpectedTotal(btc_fear)
        /\ FDiv(compare_df[2].return, Num(100)) = ExpectedTotal(btc_greed)
        /\ btc_fear = <<>> => compare_df[1].return = Num(0)
        /\ btc_greed = <<>> => compare_df[2].return = Num(0)

C2_Witness ==
    /\ pc = "done"
    /\ Len(btc_fear) >= 2
    /\ ~IsZero(compare_df[1].return)
    /\ \E i \in 1..Len(btc_fear) : IsZero(btc_fear[i].return)
    /\ btc_greed = <<>>

\* C3: cumulative_return yields one cumulative value per cohort record in
\* chronological order, cumulative[0] = 1 + forward_return[0] and
\* cumulative[i] = cumulative[i-1] * (1 + forward_return[i]); for a non-empty
\* cohort the last cumulative value equals 1 + the total return of
\* compare_strategies for the same cohort; an empty cohort yields an empty
\* sequence.
C3_CumulativeReturn ==
    pc \in {"compare", "done"} =>
        /\ Len(btc_fear_cum) = Len(btc_fear)
        /\ \A i \in 1..Len(btc_fear) :
             /\ btc_fear_cum[i].timestamp = btc_fear[i].timestamp
             /\ btc_fear_cum[i].cumulative =
                  IF i = 1 THEN FAdd(Num(1), btc_fear[1].return)
                  ELSE FMul(btc_fear_cum[i - 1].cumulative,
                            FAdd(Num(1), btc_fear[i].return))
        /\ (pc = "done" /\ btc_fear # <<>>) =>
              btc_fear_cum[Len(btc_fear_cum)].cumulative =
                  FAdd(Num(1), FDiv(compare_df[1].return, Num(100)))

C3_Witness ==
    /\ pc = "done"
    /\ Len(btc_fear_cum) >= 3
    /\ btc_fear_cum[1].cumulative # btc_fear_cum[2].cumulative
    /\ btc_fear_cum[2].cumulative # btc_fear_cum[3].cumulative
    /\ btc_fear_cum[3].cumulative # Num(1)

\* C4: whenever the sentiment series is non-empty, the merged output has
\* exactly one record per price record and no price record is dropped for lack
\* of an exact timestamp match.
C4_MergeTotal ==
    (Merged /\ fng # <<>>) =>
        /\ Len(btc_m) = Len(btc)
        /\ \A i \in 1..Len(btc) :
             \E j \in 1..Len(btc_m) :
                /\ btc_m[j].timestamp = btc[i].timestamp
                /\ btc_m[j].price = btc[i].price

C4_Witness ==
    /\ pc = "backtest"
    /\ Len(btc) = MaxLen
    /\ Len(btc_m) = MaxLen
    /\ \E i \in 1..Len(btc) :
          \A j \in 1..Len(fng) : fng[j].timestamp # btc[i].timestamp

Distance(a, b) == IF a < b THEN b - a ELSE a - b

\* C5: for every price record with timestamp t, merge_data attaches the fear
\* value of the sentiment observation whose timestamp is closest to t; when an
\* earlier and a later observation are equally distant from t, the earlier
\* one's value is attached.
C5_NearestEarlierOnTie ==
    Merged =>
        \A i \in 1..Len(btc_m) :
           \E o \in Rows(fng) :
              /\ btc_m[i].fear = o.fear
              /\ \A q \in Rows(fng) :
                   \/ Distance(o.timestamp, btc_m[i].timestamp)
                        < Distance(q.timestamp, btc_m[i].timestamp)
                   \/ /\ Distance(o.timestamp, btc_m[i].timestamp)
                           = Distance(q.timestamp, btc_m[i].timestamp)
                      /\ o.timestamp <= q.timestamp

C5_Witness ==
    /\ pc = "backtest"
    /\ \E i \in 1..Len(btc_m) : \E o, q \in Rows(fng) :
          /\ o.timestamp < btc_m[i].timestamp
          /\ btc_m[i].timestamp < q.timestamp
          /\ btc_m[i].timestamp - o.timestamp = q.timestamp - btc_m[i].timestamp
          /\ o.fear # q.fear
          /\ btc_m[i].fear = o.fear
    /\ \E i \in 1..Len(btc_m) : \E o, q \in Rows(fng) :
          /\ o.timestamp < btc_m[i].timestamp
          /\ q.timestamp - btc_m[i].timestamp < btc_m[i].timestamp - o.timestamp
          /\ o.fear # q.fear
          /\ btc_m[i].fear = q.fear

\* C8 (load_fng, load_price): a fetch failure (network error, non-200
\* response, or empty result) is absorbed by the loader, which returns a
\* non-empty well-formed series; the failure never reaches the computations
\* that consume the series.
C8_LoadersAbsorbFailure ==
    /\ error = "none"
    /\ pc # "error"
    /\ pc \notin {"load_fng", "idle"} => fng # <<>>
    /\ Merged => btc # <<>>

\* C9: a record's forward return is defined only when the series contains a
\* price observation lookahead days after that record's timestamp, and its
\* future price is the price of that observation.
C9_FutureIsDaysAhead ==
    Backtested =>
        \A r \in Rows(btc_fear) \cup Rows(btc_greed) :
           \E j \in 1..Len(btc_m) :
              /\ btc_m[j].timestamp = r.timestamp + lookahead * TicksPerDay
              /\ btc_m[j].price = r.future

----------------------------------------------------------------------------
(* app.py: fetch_coingecko_market_chart and safe_fetch_coingecko *)

MinDays == 7
RawTicks == 0..TicksPerDay          \* day 0 and the first instant of day 1
RawValues == {0, 1, 2}
DaySliderValues == {MinDays, MinDays + 1}
Today == TicksPerDay                \* pd.to_datetime('today').normalize()

\* the "market_caps" and "total_volumes" arrays are sampled at the instants of
\* "prices", all of them or all but the first or the last; factor tells the
\* three metrics apart
Scaled(obs, factor) ==
    [i \in 1..Len(obs) |->
        [timestamp |-> obs[i].timestamp, value |-> obs[i].value * factor]]
Samplings(obs) ==
    {obs} \cup
    IF obs = <<>> THEN {} ELSE {Tail(obs), SubSeq(obs, 1, Len(obs) - 1)}

FailedResponses ==
    { [status |-> st, prices |-> <<>>, market_caps |-> <<>>,
       total_volumes |-> <<>>] : st \in {"network_error", "non200"} }
OkResponse(p, m, v) ==
    [status |-> "ok", prices |-> p,
     market_caps |-> Scaled(m, 3), total_volumes |-> Scaled(v, 5)]

\* the "prices" arrays in chronological order, several observations at one
\* instant allowed
ChronologicalPrices(k) == Series(RawTicks, RawValues, 0, k, 0)

\* dt.floor('D')
FloorDay(t) == (t \div TicksPerDay) * TicksPerDay

\* Series.unique(): the distinct values in order of first appearance
RECURSIVE Unique(_)
Unique(s) ==
    IF s = <<>> THEN <<>>
    ELSE LET front == Unique(SubSeq(s, 1, Len(s) - 1))
             last == s[Len(s)]
         IN  IF \E i \in 1..Len(front) : front[i] = last
             THEN front ELSE Append(front, last)

\* groupby(date.dt.floor('D'))[metric].mean(): the group of one day
RECURSIVE GroupSum(_, _, _)
GroupSum(obs, day, i) ==
    IF i > Len(obs) THEN 0
    ELSE (IF FloorDay(obs[i].timestamp) = day THEN obs[i].value ELSE 0)
         + GroupSum(obs, day, i + 1)
GroupCount(obs, day) ==
    Cardinality({i \in 1..Len(obs) : FloorDay(obs[i].timestamp) = day})
HasGroup(obs, day) == GroupCount(obs, day) > 0
\* sum() in place of mean()
GroupMean_Sum(obs, day) == Norm(GroupSum(obs, day, 1), 1)

GroupMean(obs, day) == Norm(GroupSum(obs, day, 1), GroupCount(obs, day))

RECURSIVE InsertByDate(_, _)
InsertByDate(row, s) ==
    IF s = <<>> THEN <<row>>
    ELSE IF row.date < Head(s).date THEN <<row>> \o s
    ELSE <<Head(s)>> \o InsertByDate(row, Tail(s))
RECURSIVE SortByDate(_)
SortByDate(s) ==
    IF s = <<>> THEN <<>>
    ELSE InsertByDate(s[Len(s)], SortByDate(SubSeq(s, 1, Len(s) - 1)))

\* the frame of unique price days, inner-merged with the daily mean of each
\* metric, sorted by date; "raise" is requests.get raising, "none" a status
\* other than 200
fetch_coingecko_market_chart(r) ==
    IF r.status = "network_error" THEN [kind |-> "raise", rows |-> <<>>]
    ELSE IF r.status # "ok" THEN [kind |-> "none", rows |-> <<>>]
    ELSE LET dates == Unique([i \in 1..Len(r.prices) |->
                                 FloorDay(r.prices[i].timestamp)])
             kept == SelectSeq(dates, LAMBDA day :
                        /\ HasGroup(r.prices, day)
                        /\ HasGroup(r.market_caps, day)
                        /\ HasGroup(r.total_volumes, day))
         IN  [kind |-> "frame",
              rows |-> SortByDate(
                 [i \in 1..Len(kept) |->
                     [date |-> kept[i],
                      price |-> GroupMean(r.prices, kept[i]),
                      market_cap |-> GroupMean(r.market_caps, kept[i]),
                      volume |-> GroupMean(r.total_volumes, kept[i])]])]

\* the synthetic series of the except branch; base is 100 + abs(hash(coin_id)) % 100
FallbackBases == {100, 199}
Fallback(ndays, base) ==
    [k \in 1..ndays |->
        LET i == k - 1
            price == Norm(base * (100 + ((i % 7) - 3)), 100)
        IN  [date |-> Today - (ndays - 1 - i) * TicksPerDay,
             price |-> price,
             market_cap |-> FMul(price, Num(10000000)),
             volume |-> Num(1000000 + i * 1000)]]

safe_fetch_coingecko(r, ndays, base) ==
    LET got == fetch_coingecko_market_chart(r)
    IN  IF got.kind = "frame" /\ got.rows # <<>>
        THEN [fallback |-> FALSE, rows |-> got.rows]
        ELSE [fallback |-> TRUE, rows |-> Fallback(ndays, base)]

----------------------------------------------------------------------------
(* app.py: one call of safe_fetch_coingecko *)

\* the response arrives: a failure, or the arrays, oldest or newest first
InitFetch ==
    /\ fetch_pc = "request"
    /\ \/ response \in FailedResponses
       \/ \E a \in ChronologicalPrices(MaxRaw), newest_first \in BOOLEAN :
            LET p == IF newest_first THEN Reverse(a) ELSE a
            IN  \E m \in Samplings(p), v \in Samplings(p) :
                   response = OkResponse(p, m, v)
    /\ df = <<>>
    /\ error = "none"
    /\ BtIdle /\ AppIdle

\* safe_fetch_coingecko(coin_id, days) on the response in flight; days and the
\* hash of coin_id matter in the except branch only
SafeFetch ==
    /\ fetch_pc = "request"
    /\ LET fails == safe_fetch_coingecko(response, MinDays, 100).fallback
       IN  \E ndays \in IF fails THEN DaySliderValues ELSE {MinDays},
              base \in IF fails THEN FallbackBases ELSE {100} :
             /\ days' = ndays
             /\ df' = safe_fetch_coingecko(response, ndays, base).rows
             /\ fetch_pc' = IF fails THEN "fallback" ELSE "fetched"
    /\ UNCHANGED <<response, app_pc, selected, df_map, insights, bt_vars, error>>

NextFetch == SafeFetch

SpecFetch == InitFetch /\ [][NextFetch]_vars

----------------------------------------------------------------------------
(* Properties of fetch_coingecko_market_chart, checked under SpecFetch *)

DayIndexes(obs, day) == {i \in 1..Len(obs) : FloorDay(obs[i].timestamp) = day}

RECURSIVE SumAt(_, _)
SumAt(obs, idx) ==
    IF idx = {} THEN 0
    ELSE LET i == CHOOSE x \in idx : TRUE
         IN  obs[i].value + SumAt(obs, idx \ {i})

\* x is the arithmetic mean of the observations of obs that fall on day
IsDayMean(x, obs, day) ==
    /\ DayIndexes(obs, day) # {}
    /\ x.kind = "num"
    /\ x.n * Cardinality(DayIndexes(obs, day)) = SumAt(obs, DayIndexes(obs, day)) * x.d

\* C6: the daily table built by fetch_coingecko_market_chart has at most one
\* row per calendar day, in increasing date order, and each row's price
\* (likewise market_cap and volume) equals the arithmetic mean of all raw
\* observations of that metric whose timestamp floors to that day.
C6_DailyMeans ==
    fetch_pc = "fetched" =>
        /\ \A i, j \in 1..Len(df) : i < j => df[i].date < df[j].date
        /\ \A i \in 1..Len(df) :
             /\ FloorDay(df[i].date) = df[i].date
             /\ IsDayMean(df[i].price, response.prices, df[i].date)
             /\ IsDayMean(df[i].market_cap, response.market_caps, df[i].date)
             /\ IsDayMean(df[i].volume, response.total_volumes, df[i].date)

\* two observations of different value on the first day, given newest first
C6_Witness ==
    /\ fetch_pc = "fetched"
    /\ Len(df) = 2
    /\ Len(response.prices) = 3
    /\ response.prices[1].timestamp > response.prices[3].timestamp
    /\ df[1].price.d = 2
    /\ df[1].market_cap.d = 2
    /\ df[1].volume # df[1].market_cap

----------------------------------------------------------------------------
(* app.py: the script *)

chains == {"Ethereum", "Solana", "BNB Chain", "Polygon"}

\* what st.sidebar.multiselect can return: distinct options, in the order picked
Selections ==
    UNION { {sel \in [1..k -> chains] :
                \A i, j \in 1..k : i # j => sel[i] # sel[j]} : k \in 0..MaxSelected }

\* the responses a run of the dashboard draws from: the failures, and the
\* arrays in chronological order with all three metrics at every instant
AppResponses ==
    FailedResponses \cup
    { OkResponse(p, p, p) : p \in ChronologicalPrices(MaxRawApp) }

InitApp ==
    /\ app_pc = "sidebar" /\ selected = <<>> /\ days = 0
    /\ df_map = Unbound /\ insights = <<>>
    /\ error = "none"
    /\ BtIdle /\ FetchIdle

\* lines 89-90: the multiselect and the days slider
Sidebar ==
    /\ app_pc = "sidebar"
    /\ selected' \in Selections
    /\ days' \in DaySliderValues
    /\ app_pc' = "compare"
    /\ UNCHANGED <<df_map, insights, bt_vars, fetch_vars, error>>

\* lines 101-105: df_map is assigned in the else branch only
SelectBranch ==
    /\ app_pc = "compare"
    /\ IF selected = <<>>
       THEN /\ app_pc' = "insights"
            /\ df_map' = df_map
       ELSE /\ app_pc' = "fetch"
            /\ df_map' = [bound |-> TRUE, items |-> <<>>]
    /\ UNCHANGED <<selected, days, insights, bt_vars, fetch_vars, error>>

\* lines 106-108, one iteration: df_map[ch] = safe_fetch_coingecko(coin_id, days);
\* after the last one the charts of lines 111-133 read df_map and change nothing
FetchChain ==
    /\ app_pc = "fetch"
    /\ \E r \in AppResponses :
       \E base \in IF safe_fetch_coingecko(r, days, 100).fallback
                   THEN FallbackBases ELSE {100} :
         LET ch == selected[Len(df_map.items) + 1]
             item == [name |-> ch,
                      df |-> safe_fetch_coingecko(r, days, base).rows]
         IN  df_map' = [df_map EXCEPT !.items = Append(@, item)]
    /\ app_pc' = IF Len(df_map.items) + 1 = Len(selected)
                 THEN "insights" ELSE "fetch"
    /\ UNCHANGED <<selected, days, insights, bt_vars, fetch_vars, error>>

\* lines 141-143
PercentChange(frame) ==
    LET first == frame[1].price
        last == frame[Len(frame)].price
    IN  FMul(FDiv(FSub(last, first), first), Num(100))

\* lines 138-146: reading df_map when it was never assigned is a NameError
Insights ==
    /\ app_pc = "insights"
    /\ IF df_map.bound
       THEN /\ insights' = [k \in 1..Len(df_map.items) |->
                              [name |-> df_map.items[k].name, days |-> days,
                               change |-> PercentChange(df_map.items[k].df)]]
            /\ app_pc' = "done"
            /\ error' = error
       ELSE /\ insights' = insights
            /\ app_pc' = "error"
            /\ error' = "NameError"
    /\ UNCHANGED <<selected, days, df_map, bt_vars, fetch_vars>>

\* a widget change reruns the script in a fresh namespace
RerunApp ==
    /\ app_pc \in {"done", "error"}
    /\ app_pc' = "sidebar"
    /\ selected' = <<>> /\ days' = 0 /\ df_map' = Unbound /\ insights' = <<>>
    /\ error' = "none"
    /\ UNCHANGED <<bt_vars, fetch_vars>>

NextApp ==
    \/ Sidebar
    \/ SelectBranch
    \/ FetchChain
    \/ Insights
    \/ RerunApp

SpecApp == InitApp /\ [][NextApp]_vars

----------------------------------------------------------------------------
(* Properties of app.py, checked under SpecApp *)

\* C7: the percent-change computation of the insights section fails with
\* InsufficientData, and never yields a numeric percent, when the series has
\* fewer than 2 points or when its first price is 0; otherwise it yields
\* (last - first) / first * 100.
C7_PercentChangeInsufficientData ==
    app_pc = "done" =>
        \A k \in 1..Len(df_map.items) :
           LET frame == df_map.items[k].df
               first == frame[1].price
               last == frame[Len(frame)].price
           IN  IF Len(frame) < 2 \/ IsZero(first)
               THEN /\ error = "InsufficientData"
                    /\ \A i \in 1..Len(insights) :
                         insights[i].name # df_map.items[k].name
               ELSE /\ insights[k].name = df_map.items[k].name
                    /\ insights[k].change.kind = "num"
                    /\ insights[k].change =
                         FSub(FDiv(FMul(Num(100), last), first), Num(100))

\* C10: for every set of selected chains including the empty set, the
\* per-chain data map is defined when the insights section reads it, so the
\* run reaches the end of the script without an error (with no chain selected,
\* the insights section emits no insight line).
C10_DfMapDefinedAtInsights ==
    /\ app_pc = "insights" => df_map.bound
    /\ app_pc # "error"
    /\ error = "none"
    /\ (app_pc = "done" /\ selected = <<>>) => insights = <<>>

====
